---- MODULE Spec2Model ----
(***************************************************************************)
(* A model of elastic-builder's export surface (src/index.js) and of the   *)
(* shared histogram option setters                                         *)
(* (src/aggregations/bucket-aggregations/histogram-aggregation-base.js).  *)
(*                                                                         *)
(* The program first loads the index module, one `exports.X = ...`         *)
(* statement at a time; once it is loaded a caller constructs histogram    *)
(* builders and calls their chaining setters and toJSON.                   *)
(***************************************************************************)
EXTENDS Integers, Sequences, FiniteSets, TLC

VARIABLES
    pc,        \* index of the next top-level statement of index.js to run
    exports,   \* the module's exports object: export name -> exported value
    aggsDef,   \* heap: instance id -> that instance's `_aggsDef` option bag
    call,      \* the method call made last: [op, this, args]
    before,    \* the heap as it was when that call started
    result,    \* how that call ended: the value it returned, or what it threw
    calls      \* number of constructor and setter calls made so far

vars == <<pc, exports, aggsDef, call, before, result, calls>>

-----------------------------------------------------------------------------
(* Bounds of the model *)

MaxCalls == 3
MaxInstances == 2

-----------------------------------------------------------------------------
(* JavaScript values.  A string is the sequence of its characters, so that  *)
(* toLowerCase is computed character by character.  An object is a function *)
(* from its own property names to values.                                   *)

NoProps == [k \in {} |-> 0]

Undefined == [t |-> "undefined", s |-> <<>>, n |-> 0, o |-> NoProps]
Null == [t |-> "null", s |-> <<>>, n |-> 0, o |-> NoProps]
Num(n) == [t |-> "number", s |-> <<>>, n |-> n, o |-> NoProps]
Str(s) == [t |-> "string", s |-> s, n |-> 0, o |-> NoProps]
Bool(b) == [t |-> "boolean", s |-> <<>>, n |-> IF b THEN 1 ELSE 0, o |-> NoProps]
Obj(props) == [t |-> "object", s |-> <<>>, n |-> 0, o |-> props]

\* a reference to the builder instance with identity `this`
Ref(this) == [t |-> "instance", s |-> <<>>, n |-> this, o |-> NoProps]

\* obj[key] = value on a plain object: adds or overwrites one own property
Put(obj, key, value) ==
    [k \in DOMAIN obj \cup {key} |-> IF k = key THEN value ELSE obj[k]]

UpperCaseLetters ==
    << "A", "B", "C", "D", "E", "F", "G", "H", "I", "J", "K", "L", "M",
       "N", "O", "P", "Q", "R", "S", "T", "U", "V", "W", "X", "Y", "Z" >>

LowerCaseLetters ==
    << "a", "b", "c", "d", "e", "f", "g", "h", "i", "j", "k", "l", "m",
       "n", "o", "p", "q", "r", "s", "t", "u", "v", "w", "x", "y", "z" >>

toLowerCaseChar(c) ==
    IF \E i \in 1..Len(UpperCaseLetters) : UpperCaseLetters[i] = c
    THEN LowerCaseLetters[CHOOSE i \in 1..Len(UpperCaseLetters) : UpperCaseLetters[i] = c]
    ELSE c

\* faulty variant: the direction is compared without being lowercased
toLowerCase_asIs(s) == s

\* String.prototype.toLowerCase, on the characters of the string
toLowerCase(s) == [i \in 1..Len(s) |-> toLowerCaseChar(s[i])]

\* lodash.isnil: true of null and undefined only
isNil(v) == v.t \in {"undefined", "null"}

\* faulty variant: the parameter has no default value
DefaultParam_none(arg, dflt) == arg

\* a default parameter value applies when the argument is undefined (not null)
DefaultParam(arg, dflt) == IF arg.t = "undefined" THEN dflt ELSE arg

ASC == <<"a", "s", "c">>
DESC == <<"d", "e", "s", "c">>

-----------------------------------------------------------------------------
(* How a method call ends *)

NoResult == [kind |-> "none", value |-> Undefined, error |-> "", message |-> ""]

\* `return this`
Return(def, this) ==
    [def |-> def, kind |-> "return", value |-> Ref(this), error |-> "", message |-> ""]

\* `throw new <error>(<message>)`; the bag is as the method left it
Throw(def, error, message) ==
    [def |-> def, kind |-> "throw", value |-> Undefined, error |-> error, message |-> message]

\* the message of the thrown Error (its backquotes are left out here)
DirectionMessage == "direction must be either asc or desc"

-----------------------------------------------------------------------------
(* HistogramAggregationBase: the constructor and the setters, each as the   *)
(* bag it leaves and the way it ends.                                       *)

\* super(name, type, field): the bucket base seeds the bag with the field
BucketAggregationBase(name, type, field) ==
    IF isNil(field) THEN NoProps ELSE Put(NoProps, "field", field)

\* faulty variant: the interval is seeded only when it is truthy
HistogramAggregationBase_truthy(name, type, field, interval) ==
    LET def == BucketAggregationBase(name, type, field)
        falsy == \/ isNil(interval)
                 \/ interval = Num(0)
                 \/ interval = Str(<<>>)
                 \/ interval = Bool(FALSE)
    IN  IF ~falsy THEN Put(def, "interval", interval) ELSE def

HistogramAggregationBase(name, type, field, interval) ==
    LET def == BucketAggregationBase(name, type, field)
    IN  IF ~isNil(interval) THEN Put(def, "interval", interval) ELSE def

interval(def, this, value) == Return(Put(def, "interval", value), this)

format(def, this, fmt) == Return(Put(def, "format", fmt), this)

\* faulty variant: a negative offset is refused and the offset entry removed
offset_nonNegative(def, this, value) ==
    IF value.t = "number" /\ value.n < 0
    THEN Return([k \in DOMAIN def \ {"offset"} |-> def[k]], this)
    ELSE Return(Put(def, "offset", value), this)

offset(def, this, value) == Return(Put(def, "offset", value), this)

\* faulty variant: the entry is written before the direction is validated
order_writeFirst(def, this, key, direction) ==
    LET dir == DefaultParam(direction, Str(DESC))
    IN  IF dir.t # "string"
        THEN Throw(def, "TypeError", "direction.toLowerCase is not a function")
        ELSE LET directionLower == toLowerCase(dir.s)
                 written == Put(def, "order",
                                Obj(Put(NoProps, key, Str(directionLower))))
             IN  IF directionLower # ASC /\ directionLower # DESC
                 THEN Throw(written, "Error", DirectionMessage)
                 ELSE Return(written, this)

\* faulty variant: the new key is merged into the previous ordering
order_merge(def, this, key, direction) ==
    LET dir == DefaultParam(direction, Str(DESC))
    IN  IF dir.t # "string"
        THEN Throw(def, "TypeError", "direction.toLowerCase is not a function")
        ELSE LET directionLower == toLowerCase(dir.s)
                 previous == IF "order" \in DOMAIN def THEN def.order.o ELSE NoProps
             IN  IF directionLower # ASC /\ directionLower # DESC
                 THEN Throw(def, "Error", DirectionMessage)
                 ELSE Return(Put(def, "order",
                                 Obj(Put(previous, key, Str(directionLower)))),
                             this)

\* faulty variant: the direction is validated in lowercase but stored as given
order_storeAsGiven(def, this, key, direction) ==
    LET dir == DefaultParam(direction, Str(DESC))
    IN  IF dir.t # "string"
        THEN Throw(def, "TypeError", "direction.toLowerCase is not a function")
        ELSE LET directionLower == toLowerCase(dir.s)
             IN  IF directionLower # ASC /\ directionLower # DESC
                 THEN Throw(def, "Error", DirectionMessage)
                 ELSE Return(Put(def, "order", Obj(Put(NoProps, key, dir))), this)

order(def, this, key, direction) ==
    LET dir == DefaultParam(direction, Str(DESC))
    IN  IF dir.t # "string"
        THEN \* null, a number or a boolean has no toLowerCase method
             Throw(def, "TypeError", "direction.toLowerCase is not a function")
        ELSE LET directionLower == toLowerCase(dir.s)
             IN  IF directionLower # ASC /\ directionLower # DESC
                 THEN Throw(def, "Error", DirectionMessage)
                 ELSE Return(Put(def, "order",
                                 Obj(Put(NoProps, key, Str(directionLower)))),
                             this)

\* faulty variant: the threshold is stored under the method's own name
minDocCount_camelKey(def, this, minDocCnt) ==
    Return(Put(def, "minDocCount", minDocCnt), this)

minDocCount(def, this, minDocCnt) ==
    Return(Put(def, "min_doc_count", minDocCnt), this)

\* faulty variant: a bound already stored is kept, only a new one is added
extendedBounds_merge(def, this, min, max) ==
    LET previous == IF "extended_bounds" \in DOMAIN def
                    THEN def.extended_bounds.o
                    ELSE [min |-> min, max |-> max]
    IN  Return(Put(def, "extended_bounds",
                   Obj([min |-> previous.min, max |-> max])), this)

\* faulty variant: a bound that is null or undefined is not written at all
extendedBounds_skipNil(def, this, min, max) ==
    LET withMin == IF isNil(min) THEN NoProps ELSE Put(NoProps, "min", min)
        withMax == IF isNil(max) THEN withMin ELSE Put(withMin, "max", max)
    IN  Return(Put(def, "extended_bounds", Obj(withMax)), this)

extendedBounds(def, this, min, max) ==
    Return(Put(def, "extended_bounds", Obj([min |-> min, max |-> max])), this)

missing(def, this, value) == Return(Put(def, "missing", value), this)

\* faulty variant: the setter returns a copy, not the instance it was called on
keyed_returnsCopy(def, this, value) ==
    [Return(Put(def, "keyed", value), this) EXCEPT !.value = Ref(this + 1)]

keyed(def, this, value) == Return(Put(def, "keyed", value), this)

\* faulty variant: serializing moves the `order` entry out of the bag
toJSON_consumes(def, this) ==
    [def |-> [k \in DOMAIN def \ {"order"} |-> def[k]],
     kind |-> "return", value |-> Obj(def), error |-> "", message |-> ""]

\* serialization: the bag as a plain nested structure; the bag is only read
toJSON(def, this) ==
    [def |-> def, kind |-> "return", value |-> Obj(def), error |-> "", message |-> ""]

-----------------------------------------------------------------------------
(* Arguments the caller passes *)

AggName == "my_agg"
AggType == "histogram"

FieldArgs == { Str(<<"a", "g", "e">>) }
CtorIntervalArgs == { Undefined, Null, Num(0), Str(<<>>), Num(10) }
IntervalArgs == { Num(5), Str(<<"d", "a", "y">>) }
FormatArgs == { Undefined, Str(<<"#", "#", ".", "0", "0">>) }
OffsetArgs == { Num(-5), Num(10) }
MinDocCountArgs == { Num(0), Num(5) }
MissingArgs == { Null, Num(0) }
KeyedArgs == { Bool(TRUE), Str(<<"y", "e", "s">>) }
BoundArgs == { Undefined, Num(0), Num(100) }
OrderKeys == { "_count", "_key" }
DirectionArgs ==
    { Str(<<"A", "S", "C">>), Str(<<"d", "e", "s", "c">>), Str(<<"D", "e", "s", "c">>),
      Str(<<"u", "p">>), Str(<<>>),
      Str(<<"A", "S", "C", "E", "N", "D", "I", "N", "G">>),
      Undefined, Null, Num(1) }

-----------------------------------------------------------------------------
(* index.js: the classes it imports and its top-level export statements.    *)
(* A name is kept as its first letter and the rest, so that the factory     *)
(* name of a class (first letter lowercased) is computed, not looked up.    *)

Name(first, rest) == [first |-> first, rest |-> rest]

Stmt(line, target, kind, cls) ==
    [line |-> line, target |-> target, kind |-> kind, cls |-> cls]

\* the class object bound to an imported name
Class(X) == [kind |-> "class", of |-> X]

\* core/util constructorWrapper: a factory function calling `new X(...)`
constructorWrapper(X) == [kind |-> "wrapper", of |-> X]

\* a plain function expression
FunctionExpr(X) == [kind |-> "function", of |-> X]

Classes ==
    { Name("R", "equestBodySearch"),
      Name("H", "ighlight"),
      Name("S", "cript"),
      Name("G", "eoPoint"),
      Name("G", "eoShape"),
      Name("I", "ndexedShape"),
      Name("S", "ort"),
      Name("R", "escore"),
      Name("I", "nnerHits"),
      Name("M", "atchAllQuery"),
      Name("M", "atchNoneQuery"),
      Name("M", "atchQuery"),
      Name("M", "atchPhraseQuery"),
      Name("M", "atchPhrasePrefixQuery"),
      Name("M", "ultiMatchQuery"),
      Name("C", "ommonTermsQuery"),
      Name("Q", "ueryStringQuery"),
      Name("S", "impleQueryStringQuery"),
      Name("T", "ermQuery"),
      Name("T", "ermsQuery"),
      Name("R", "angeQuery"),
      Name("E", "xistsQuery"),
      Name("P", "refixQuery"),
      Name("W", "ildcardQuery"),
      Name("R", "egexpQuery"),
      Name("F", "uzzyQuery"),
      Name("T", "ypeQuery"),
      Name("I", "dsQuery"),
      Name("C", "onstantScoreQuery"),
      Name("B", "oolQuery"),
      Name("D", "isMaxQuery"),
      Name("F", "unctionScoreQuery"),
      Name("B", "oostingQuery"),
      Name("S", "coreFunction"),
      Name("S", "criptScoreFunction"),
      Name("W", "eightFunction"),
      Name("R", "andomScoreFunction"),
      Name("F", "ieldValueFactorFunction"),
      Name("D", "ecayScoreFunction"),
      Name("N", "estedQuery"),
      Name("H", "asChildQuery"),
      Name("H", "asParentQuery"),
      Name("P", "arentIdQuery"),
      Name("G", "eoShapeQuery"),
      Name("G", "eoBoundingBoxQuery"),
      Name("G", "eoDistanceQuery"),
      Name("G", "eoPolygonQuery"),
      Name("M", "oreLikeThisQuery"),
      Name("S", "criptQuery"),
      Name("P", "ercolateQuery"),
      Name("S", "panTermQuery"),
      Name("S", "panMultiTermQuery"),
      Name("S", "panFirstQuery"),
      Name("S", "panNearQuery"),
      Name("S", "panOrQuery"),
      Name("S", "panNotQuery"),
      Name("S", "panContainingQuery"),
      Name("S", "panWithinQuery"),
      Name("S", "panFieldMaskingQuery"),
      Name("A", "vgAggregation"),
      Name("C", "ardinalityAggregation"),
      Name("E", "xtendedStatsAggregation"),
      Name("G", "eoBoundsAggregation"),
      Name("G", "eoCentroidAggregation"),
      Name("M", "axAggregation"),
      Name("M", "inAggregation"),
      Name("P", "ercentilesAggregation"),
      Name("P", "ercentileRanksAggregation"),
      Name("S", "criptedMetricAggregation"),
      Name("S", "tatsAggregation"),
      Name("S", "umAggregation"),
      Name("T", "opHitsAggregation"),
      Name("V", "alueCountAggregation"),
      Name("C", "hildrenAggregation"),
      Name("D", "ateHistogramAggregation"),
      Name("D", "ateRangeAggregation"),
      Name("D", "iversifiedSamplerAggregation"),
      Name("F", "ilterAggregation"),
      Name("F", "iltersAggregation"),
      Name("G", "eoDistanceAggregation"),
      Name("G", "eoHashGridAggregation"),
      Name("G", "lobalAggregation"),
      Name("H", "istogramAggregation"),
      Name("I", "pRangeAggregation"),
      Name("M", "issingAggregation"),
      Name("N", "estedAggregation"),
      Name("R", "angeAggregation"),
      Name("R", "everseNestedAggregation"),
      Name("S", "amplerAggregation"),
      Name("S", "ignificantTermsAggregation"),
      Name("T", "ermsAggregation"),
      Name("A", "vgBucketAggregation"),
      Name("D", "erivativeAggregation"),
      Name("M", "axBucketAggregation"),
      Name("M", "inBucketAggregation"),
      Name("S", "umBucketAggregation"),
      Name("S", "tatsBucketAggregation"),
      Name("E", "xtendedStatsBucketAggregation"),
      Name("P", "ercentilesBucketAggregation"),
      Name("M", "ovingAverageAggregation"),
      Name("C", "umulativeSumAggregation"),
      Name("B", "ucketScriptAggregation"),
      Name("B", "ucketSelectorAggregation"),
      Name("S", "erialDifferencingAggregation"),
      Name("M", "atrixStatsAggregation") }

Statements ==
    << Stmt(166, Name("R", "equestBodySearch"), "class", Name("R", "equestBodySearch")),
       Stmt(176, Name("r", "equestBodySearch"), "wrapper", Name("R", "equestBodySearch")),
       Stmt(181, Name("M", "atchAllQuery"), "class", Name("M", "atchAllQuery")),
       Stmt(182, Name("m", "atchAllQuery"), "wrapper", Name("M", "atchAllQuery")),
       Stmt(184, Name("M", "atchNoneQuery"), "class", Name("M", "atchNoneQuery")),
       Stmt(185, Name("m", "atchNoneQuery"), "wrapper", Name("M", "atchNoneQuery")),
       Stmt(190, Name("M", "atchQuery"), "class", Name("M", "atchQuery")),
       Stmt(191, Name("m", "atchQuery"), "wrapper", Name("M", "atchQuery")),
       Stmt(193, Name("M", "atchPhraseQuery"), "class", Name("M", "atchPhraseQuery")),
       Stmt(194, Name("m", "atchPhraseQuery"), "wrapper", Name("M", "atchPhraseQuery")),
       Stmt(196, Name("M", "atchPhrasePrefixQuery"), "class", Name("M", "atchPhrasePrefixQuery")),
       Stmt(197, Name("m", "atchPhrasePrefixQuery"), "wrapper", Name("M", "atchPhrasePrefixQuery")),
       Stmt(199, Name("M", "ultiMatchQuery"), "class", Name("M", "ultiMatchQuery")),
       Stmt(200, Name("m", "ultiMatchQuery"), "wrapper", Name("M", "ultiMatchQuery")),
       Stmt(202, Name("C", "ommonTermsQuery"), "class", Name("C", "ommonTermsQuery")),
       Stmt(203, Name("c", "ommonTermsQuery"), "wrapper", Name("C", "ommonTermsQuery")),
       Stmt(205, Name("Q", "ueryStringQuery"), "class", Name("Q", "ueryStringQuery")),
       Stmt(206, Name("q", "ueryStringQuery"), "wrapper", Name("Q", "ueryStringQuery")),
       Stmt(208, Name("S", "impleQueryStringQuery"), "class", Name("S", "impleQueryStringQuery")),
       Stmt(209, Name("s", "impleQueryStringQuery"), "wrapper", Name("S", "impleQueryStringQuery")),
       Stmt(214, Name("T", "ermQuery"), "class", Name("T", "ermQuery")),
       Stmt(215, Name("t", "ermQuery"), "wrapper", Name("T", "ermQuery")),
       Stmt(217, Name("T", "ermsQuery"), "class", Name("T", "ermsQuery")),
       Stmt(218, Name("t", "ermsQuery"), "wrapper", Name("T", "ermsQuery")),
       Stmt(220, Name("R", "angeQuery"), "class", Name("R", "angeQuery")),
       Stmt(221, Name("r", "angeQuery"), "wrapper", Name("R", "angeQuery")),
       Stmt(223, Name("E", "xistsQuery"), "class", Name("E", "xistsQuery")),
       Stmt(224, Name("e", "xistsQuery"), "wrapper", Name("E", "xistsQuery")),
       Stmt(226, Name("P", "refixQuery"), "class", Name("P", "refixQuery")),
       Stmt(227, Name("p", "refixQuery"), "wrapper", Name("P", "refixQuery")),
       Stmt(229, Name("W", "ildcardQuery"), "class", Name("W", "ildcardQuery")),
       Stmt(230, Name("w", "ildcardQuery"), "wrapper", Name("W", "ildcardQuery")),
       Stmt(232, Name("R", "egexpQuery"), "class", Name("R", "egexpQuery")),
       Stmt(233, Name("r", "egexpQuery"), "wrapper", Name("R", "egexpQuery")),
       Stmt(235, Name("F", "uzzyQuery"), "class", Name("F", "uzzyQuery")),
       Stmt(236, Name("f", "uzzyQuery"), "wrapper", Name("F", "uzzyQuery")),
       Stmt(238, Name("T", "ypeQuery"), "class", Name("T", "ypeQuery")),
       Stmt(239, Name("t", "ypeQuery"), "wrapper", Name("T", "ypeQuery")),
       Stmt(241, Name("I", "dsQuery"), "class", Name("I", "dsQuery")),
       Stmt(242, Name("i", "dsQuery"), "wrapper", Name("I", "dsQuery")),
       Stmt(247, Name("C", "onstantScoreQuery"), "class", Name("C", "onstantScoreQuery")),
       Stmt(248, Name("c", "onstantScoreQuery"), "wrapper", Name("C", "onstantScoreQuery")),
       Stmt(250, Name("B", "oolQuery"), "class", Name("B", "oolQuery")),
       Stmt(251, Name("b", "oolQuery"), "wrapper", Name("B", "oolQuery")),
       Stmt(253, Name("D", "isMaxQuery"), "class", Name("D", "isMaxQuery")),
       Stmt(254, Name("d", "isMaxQuery"), "wrapper", Name("D", "isMaxQuery")),
       Stmt(256, Name("F", "unctionScoreQuery"), "class", Name("F", "unctionScoreQuery")),
       Stmt(257, Name("f", "unctionScoreQuery"), "wrapper", Name("F", "unctionScoreQuery")),
       Stmt(259, Name("B", "oostingQuery"), "class", Name("B", "oostingQuery")),
       Stmt(260, Name("b", "oostingQuery"), "wrapper", Name("B", "oostingQuery")),
       Stmt(265, Name("N", "estedQuery"), "class", Name("N", "estedQuery")),
       Stmt(266, Name("n", "estedQuery"), "wrapper", Name("N", "estedQuery")),
       Stmt(268, Name("H", "asChildQuery"), "class", Name("H", "asChildQuery")),
       Stmt(269, Name("h", "asChildQuery"), "wrapper", Name("H", "asChildQuery")),
       Stmt(271, Name("H", "asParentQuery"), "class", Name("H", "asParentQuery")),
       Stmt(272, Name("h", "asParentQuery"), "wrapper", Name("H", "asParentQuery")),
       Stmt(274, Name("P", "arentIdQuery"), "class", Name("P", "arentIdQuery")),
       Stmt(275, Name("p", "arentIdQuery"), "wrapper", Name("P", "arentIdQuery")),
       Stmt(280, Name("G", "eoShapeQuery"), "class", Name("G", "eoShapeQuery")),
       Stmt(281, Name("g", "eoShapeQuery"), "wrapper", Name("G", "eoShapeQuery")),
       Stmt(283, Name("G", "eoBoundingBoxQuery"), "class", Name("G", "eoBoundingBoxQuery")),
       Stmt(284, Name("g", "eoBoundingBoxQuery"), "wrapper", Name("G", "eoBoundingBoxQuery")),
       Stmt(286, Name("G", "eoDistanceQuery"), "class", Name("G", "eoDistanceQuery")),
       Stmt(287, Name("g", "eoDistanceQuery"), "wrapper", Name("G", "eoDistanceQuery")),
       Stmt(289, Name("G", "eoPolygonQuery"), "class", Name("G", "eoPolygonQuery")),
       Stmt(290, Name("g", "eoPolygonQuery"), "wrapper", Name("G", "eoPolygonQuery")),
       Stmt(295, Name("M", "oreLikeThisQuery"), "class", Name("M", "oreLikeThisQuery")),
       Stmt(296, Name("m", "oreLikeThisQuery"), "wrapper", Name("M", "oreLikeThisQuery")),
       Stmt(298, Name("S", "criptQuery"), "class", Name("S", "criptQuery")),
       Stmt(299, Name("s", "criptQuery"), "wrapper", Name("S", "criptQuery")),
       Stmt(301, Name("P", "ercolateQuery"), "class", Name("P", "ercolateQuery")),
       Stmt(302, Name("p", "ercolateQuery"), "wrapper", Name("P", "ercolateQuery")),
       Stmt(307, Name("S", "panTermQuery"), "class", Name("S", "panTermQuery")),
       Stmt(308, Name("s", "panTermQuery"), "wrapper", Name("S", "panTermQuery")),
       Stmt(310, Name("S", "panMultiTermQuery"), "class", Name("S", "panMultiTermQuery")),
       Stmt(311, Name("s", "panMultiTermQuery"), "wrapper", Name("S", "panMultiTermQuery")),
       Stmt(313, Name("S", "panFirstQuery"), "class", Name("S", "panFirstQuery")),
       Stmt(314, Name("s", "panFirstQuery"), "wrapper", Name("S", "panFirstQuery")),
       Stmt(316, Name("S", "panNearQuery"), "class", Name("S", "panNearQuery")),
       Stmt(317, Name("s", "panNearQuery"), "wrapper", Name("S", "panNearQuery")),
       Stmt(319, Name("S", "panOrQuery"), "class", Name("S", "panOrQuery")),
       Stmt(320, Name("s", "panOrQuery"), "wrapper", Name("S", "panOrQuery")),
       Stmt(322, Name("S", "panNotQuery"), "class", Name("S", "panNotQuery")),
       Stmt(323, Name("s", "panNotQuery"), "wrapper", Name("S", "panNotQuery")),
       Stmt(325, Name("S", "panContainingQuery"), "class", Name("S", "panContainingQuery")),
       Stmt(326, Name("s", "panContainingQuery"), "wrapper", Name("S", "panContainingQuery")),
       Stmt(328, Name("S", "panWithinQuery"), "class", Name("S", "panWithinQuery")),
       Stmt(329, Name("s", "panWithinQuery"), "wrapper", Name("S", "panWithinQuery")),
       Stmt(331, Name("S", "panFieldMaskingQuery"), "class", Name("S", "panFieldMaskingQuery")),
       Stmt(332, Name("s", "panFieldMaskingQuery"), "wrapper", Name("S", "panFieldMaskingQuery")),
       Stmt(336, Name("A", "vgAggregation"), "class", Name("A", "vgAggregation")),
       Stmt(337, Name("a", "vgAggregation"), "wrapper", Name("A", "vgAggregation")),
       Stmt(339, Name("C", "ardinalityAggregation"), "class", Name("C", "ardinalityAggregation")),
       Stmt(340, Name("c", "ardinalityAggregation"), "wrapper", Name("C", "ardinalityAggregation")),
       Stmt(342, Name("E", "xtendedStatsAggregation"), "class", Name("E", "xtendedStatsAggregation")),
       Stmt(343, Name("e", "xtendedStatsAggregation"), "wrapper", Name("E", "xtendedStatsAggregation")),
       Stmt(345, Name("G", "eoBoundsAggregation"), "class", Name("G", "eoBoundsAggregation")),
       Stmt(346, Name("g", "eoBoundsAggregation"), "wrapper", Name("G", "eoBoundsAggregation")),
       Stmt(348, Name("G", "eoCentroidAggregation"), "class", Name("G", "eoCentroidAggregation")),
       Stmt(349, Name("g", "eoCentroidAggregation"), "wrapper", Name("G", "eoCentroidAggregation")),
       Stmt(351, Name("M", "axAggregation"), "class", Name("M", "axAggregation")),
       Stmt(352, Name("m", "axAggregation"), "wrapper", Name("M", "axAggregation")),
       Stmt(354, Name("M", "inAggregation"), "class", Name("M", "inAggregation")),
       Stmt(355, Name("m", "inAggregation"), "wrapper", Name("M", "inAggregation")),
       Stmt(357, Name("P", "ercentilesAggregation"), "class", Name("P", "ercentilesAggregation")),
       Stmt(358, Name("p", "ercentilesAggregation"), "wrapper", Name("P", "ercentilesAggregation")),
       Stmt(360, Name("P", "ercentileRanksAggregation"), "class", Name("P", "ercentileRanksAggregation")),
       Stmt(361, Name("p", "ercentileRanksAggregation"), "wrapper", Name("P", "ercentileRanksAggregation")),
       Stmt(363, Name("S", "criptedMetricAggregation"), "class", Name("S", "criptedMetricAggregation")),
       Stmt(364, Name("s", "criptedMetricAggregation"), "wrapper", Name("S", "criptedMetricAggregation")),
       Stmt(366, Name("S", "tatsAggregation"), "class", Name("S", "tatsAggregation")),
       Stmt(367, Name("s", "tatsAggregation"), "wrapper", Name("S", "tatsAggregation")),
       Stmt(369, Name("S", "umAggregation"), "class", Name("S", "umAggregation")),
       Stmt(370, Name("s", "umAggregation"), "wrapper", Name("S", "umAggregation")),
       Stmt(372, Name("T", "opHitsAggregation"), "class", Name("T", "opHitsAggregation")),
       Stmt(373, Name("t", "opHitsAggregation"), "wrapper", Name("T", "opHitsAggregation")),
       Stmt(375, Name("V", "alueCountAggregation"), "class", Name("V", "alueCountAggregation")),
       Stmt(376, Name("v", "alueCountAggregation"), "wrapper", Name("V", "alueCountAggregation")),
       Stmt(381, Name("C", "hildrenAggregation"), "class", Name("C", "hildrenAggregation")),
       Stmt(382, Name("c", "hildrenAggregation"), "wrapper", Name("C", "hildrenAggregation")),
       Stmt(384, Name("D", "ateHistogramAggregation"), "class", Name("D", "ateHistogramAggregation")),
       Stmt(385, Name("d", "ateHistogramAggregation"), "wrapper", Name("D", "ateHistogramAggregation")),
       Stmt(387, Name("D", "ateRangeAggregation"), "class", Name("D", "ateRangeAggregation")),
       Stmt(388, Name("d", "ateRangeAggregation"), "wrapper", Name("D", "ateRangeAggregation")),
       Stmt(390, Name("D", "iversifiedSamplerAggregation"), "class", Name("D", "iversifiedSamplerAggregation")),
       Stmt(391, Name("d", "iversifiedSamplerAggregation"), "wrapper", Name("D", "iversifiedSamplerAggregation")),
       Stmt(393, Name("F", "ilterAggregation"), "class", Name("F", "ilterAggregation")),
       Stmt(394, Name("f", "ilterAggregation"), "wrapper", Name("F", "ilterAggregation")),
       Stmt(396, Name("F", "iltersAggregation"), "class", Name("F", "iltersAggregation")),
       Stmt(397, Name("f", "iltersAggregation"), "wrapper", Name("F", "iltersAggregation")),
       Stmt(399, Name("G", "eoDistanceAggregation"), "class", Name("G", "eoDistanceAggregation")),
       Stmt(400, Name("g", "eoDistanceAggregation"), "wrapper", Name("G", "eoDistanceAggregation")),
       Stmt(402, Name("G", "eoHashGridAggregation"), "class", Name("G", "eoHashGridAggregation")),
       Stmt(403, Name("g", "eoHashGridAggregation"), "wrapper", Name("G", "eoHashGridAggregation")),
       Stmt(405, Name("G", "lobalAggregation"), "class", Name("G", "lobalAggregation")),
       Stmt(406, Name("g", "lobalAggregation"), "wrapper", Name("G", "lobalAggregation")),
       Stmt(408, Name("H", "istogramAggregation"), "class", Name("H", "istogramAggregation")),
       Stmt(409, Name("h", "istogramAggregation"), "wrapper", Name("H", "istogramAggregation")),
       Stmt(411, Name("I", "pRangeAggregation"), "class", Name("I", "pRangeAggregation")),
       Stmt(412, Name("i", "pRangeAggregation"), "wrapper", Name("I", "pRangeAggregation")),
       Stmt(414, Name("M", "issingAggregation"), "class", Name("M", "issingAggregation")),
       Stmt(415, Name("m", "issingAggregation"), "wrapper", Name("M", "issingAggregation")),
       Stmt(417, Name("N", "estedAggregation"), "class", Name("N", "estedAggregation")),
       Stmt(418, Name("n", "estedAggregation"), "wrapper", Name("N", "estedAggregation")),
       Stmt(420, Name("R", "angeAggregation"), "class", Name("R", "angeAggregation")),
       Stmt(421, Name("r", "angeAggregation"), "wrapper", Name("R", "angeAggregation")),
       Stmt(423, Name("R", "everseNestedAggregation"), "class", Name("R", "everseNestedAggregation")),
       Stmt(424, Name("r", "everseNestedAggregation"), "wrapper", Name("R", "everseNestedAggregation")),
       Stmt(426, Name("S", "amplerAggregation"), "class", Name("S", "amplerAggregation")),
       Stmt(427, Name("s", "amplerAggregation"), "wrapper", Name("S", "amplerAggregation")),
       Stmt(429, Name("S", "ignificantTermsAggregation"), "class", Name("S", "ignificantTermsAggregation")),
       Stmt(430, Name("s", "ignificantTermsAggregation"), "wrapper", Name("S", "ignificantTermsAggregation")),
       Stmt(432, Name("T", "ermsAggregation"), "class", Name("T", "ermsAggregation")),
       Stmt(433, Name("t", "ermsAggregation"), "wrapper", Name("T", "ermsAggregation")),
       Stmt(438, Name("A", "vgBucketAggregation"), "class", Name("A", "vgBucketAggregation")),
       Stmt(439, Name("a", "vgBucketAggregation"), "wrapper", Name("A", "vgBucketAggregation")),
       Stmt(441, Name("D", "erivativeAggregation"), "class", Name("D", "erivativeAggregation")),
       Stmt(442, Name("d", "erivativeAggregation"), "wrapper", Name("D", "erivativeAggregation")),
       Stmt(444, Name("M", "axBucketAggregation"), "class", Name("M", "axBucketAggregation")),
       Stmt(445, Name("m", "axBucketAggregation"), "wrapper", Name("M", "axBucketAggregation")),
       Stmt(447, Name("M", "inBucketAggregation"), "class", Name("M", "inBucketAggregation")),
       Stmt(448, Name("m", "inBucketAggregation"), "wrapper", Name("M", "inBucketAggregation")),
       Stmt(450, Name("S", "umBucketAggregation"), "class", Name("S", "umBucketAggregation")),
       Stmt(451, Name("s", "umBucketAggregation"), "wrapper", Name("S", "umBucketAggregation")),
       Stmt(453, Name("S", "tatsBucketAggregation"), "class", Name("S", "tatsBucketAggregation")),
       Stmt(454, Name("s", "tatsBucketAggregation"), "wrapper", Name("S", "tatsBucketAggregation")),
       Stmt(456, Name("E", "xtendedStatsBucketAggregation"), "class", Name("E", "xtendedStatsBucketAggregation")),
       Stmt(457, Name("e", "xtendedStatsBucketAggregation"), "wrapper", Name("E", "xtendedStatsBucketAggregation")),
       Stmt(459, Name("P", "ercentilesBucketAggregation"), "class", Name("P", "ercentilesBucketAggregation")),
       Stmt(460, Name("p", "ercentilesBucketAggregation"), "wrapper", Name("P", "ercentilesBucketAggregation")),
       Stmt(462, Name("M", "ovingAverageAggregation"), "class", Name("M", "ovingAverageAggregation")),
       Stmt(463, Name("m", "ovingAverageAggregation"), "wrapper", Name("M", "ovingAverageAggregation")),
       Stmt(465, Name("C", "umulativeSumAggregation"), "class", Name("C", "umulativeSumAggregation")),
       Stmt(466, Name("c", "umulativeSumAggregation"), "wrapper", Name("C", "umulativeSumAggregation")),
       Stmt(468, Name("B", "ucketScriptAggregation"), "class", Name("B", "ucketScriptAggregation")),
       Stmt(469, Name("b", "ucketScriptAggregation"), "wrapper", Name("B", "ucketScriptAggregation")),
       Stmt(471, Name("B", "ucketSelectorAggregation"), "class", Name("B", "ucketSelectorAggregation")),
       Stmt(472, Name("b", "ucketSelectorAggregation"), "wrapper", Name("B", "ucketSelectorAggregation")),
       Stmt(474, Name("S", "erialDifferencingAggregation"), "class", Name("S", "erialDifferencingAggregation")),
       Stmt(475, Name("s", "erialDifferencingAggregation"), "wrapper", Name("S", "erialDifferencingAggregation")),
       Stmt(480, Name("M", "atrixStatsAggregation"), "class", Name("M", "atrixStatsAggregation")),
       Stmt(481, Name("M", "atrixStatsAggregation"), "wrapper", Name("M", "atrixStatsAggregation")),
       Stmt(486, Name("S", "coreFunction"), "class", Name("S", "coreFunction")),
       Stmt(487, Name("s", "coreFunction"), "wrapper", Name("S", "coreFunction")),
       Stmt(489, Name("S", "criptScoreFunction"), "class", Name("S", "criptScoreFunction")),
       Stmt(490, Name("s", "criptScoreFunction"), "wrapper", Name("S", "criptScoreFunction")),
       Stmt(492, Name("W", "eightFunction"), "class", Name("W", "eightFunction")),
       Stmt(493, Name("w", "eightFunction"), "wrapper", Name("W", "eightFunction")),
       Stmt(495, Name("R", "andomScoreFunction"), "class", Name("R", "andomScoreFunction")),
       Stmt(496, Name("r", "andomScoreFunction"), "wrapper", Name("R", "andomScoreFunction")),
       Stmt(498, Name("F", "ieldValueFactorFunction"), "class", Name("F", "ieldValueFactorFunction")),
       Stmt(499, Name("f", "ieldValueFactorFunction"), "wrapper", Name("F", "ieldValueFactorFunction")),
       Stmt(501, Name("D", "ecayScoreFunction"), "class", Name("D", "ecayScoreFunction")),
       Stmt(502, Name("d", "ecayScoreFunction"), "wrapper", Name("D", "ecayScoreFunction")),
       Stmt(507, Name("H", "ighlight"), "class", Name("H", "ighlight")),
       Stmt(508, Name("h", "ighlight"), "wrapper", Name("H", "ighlight")),
       Stmt(510, Name("S", "cript"), "class", Name("S", "cript")),
       Stmt(511, Name("s", "cript"), "wrapper", Name("S", "cript")),
       Stmt(513, Name("G", "eoPoint"), "class", Name("G", "eoPoint")),
       Stmt(514, Name("g", "eoPoint"), "wrapper", Name("G", "eoPoint")),
       Stmt(516, Name("G", "eoShape"), "class", Name("G", "eoShape")),
       Stmt(517, Name("g", "eoShape"), "wrapper", Name("G", "eoShape")),
       Stmt(519, Name("I", "ndexedShape"), "class", Name("I", "ndexedShape")),
       Stmt(520, Name("i", "ndexedShape"), "wrapper", Name("I", "ndexedShape")),
       Stmt(522, Name("S", "ort"), "class", Name("S", "ort")),
       Stmt(523, Name("s", "ort"), "wrapper", Name("S", "ort")),
       Stmt(525, Name("R", "escore"), "class", Name("R", "escore")),
       Stmt(526, Name("r", "escore"), "wrapper", Name("R", "escore")),
       Stmt(528, Name("I", "nnerHits"), "class", Name("I", "nnerHits")),
       Stmt(529, Name("i", "nnerHits"), "wrapper", Name("I", "nnerHits")),
       Stmt(537, Name("p", "rettyPrint"), "function", Name("p", "rettyPrint")) >>

Loaded == pc > Len(Statements)

-----------------------------------------------------------------------------
(* The state machine *)

NoCall == [op |-> "none", this |-> 0, args |-> <<>>]

Init ==
    /\ pc = 1
    /\ exports = NoProps
    /\ aggsDef = NoProps
    /\ call = NoCall
    /\ before = NoProps
    /\ result = NoResult
    /\ calls = 0

BuilderUnchanged == UNCHANGED <<aggsDef, call, before, result, calls>>

\* exports.X = X;
ExportClass ==
    /\ ~Loaded
    /\ Statements[pc].kind = "class"
    /\ exports' = Put(exports, Statements[pc].target, Class(Statements[pc].cls))
    /\ pc' = pc + 1
    /\ BuilderUnchanged

\* exports.x = constructorWrapper(X);
ExportFactory ==
    /\ ~Loaded
    /\ Statements[pc].kind = "wrapper"
    /\ exports' = Put(exports, Statements[pc].target,
                      constructorWrapper(Statements[pc].cls))
    /\ pc' = pc + 1
    /\ BuilderUnchanged

\* exports.prettyPrint = function prettyPrint(obj) { ... };
ExportPrettyPrint ==
    /\ ~Loaded
    /\ Statements[pc].kind = "function"
    /\ exports' = Put(exports, Statements[pc].target,
                      FunctionExpr(Statements[pc].cls))
    /\ pc' = pc + 1
    /\ BuilderUnchanged

\* a setter call on instance `this`, ending as `eff` says
Invoke(op, this, args, eff) ==
    /\ aggsDef' = [aggsDef EXCEPT ![this] = eff.def]
    /\ result' = [kind |-> eff.kind, value |-> eff.value,
                  error |-> eff.error, message |-> eff.message]
    /\ call' = [op |-> op, this |-> this, args |-> args]
    /\ before' = aggsDef
    /\ calls' = calls + 1
    /\ UNCHANGED <<pc, exports>>

CanCall == Loaded /\ calls < MaxCalls

\* new HistogramAggregationBase(name, type, field, interval)
Construct ==
    /\ CanCall
    /\ Cardinality(DOMAIN aggsDef) < MaxInstances
    /\ \E field \in FieldArgs, ival \in CtorIntervalArgs :
          LET this == Cardinality(DOMAIN aggsDef) + 1
          IN  /\ aggsDef' = Put(aggsDef, this,
                     HistogramAggregationBase(AggName, AggType, field, ival))
              /\ result' = [kind |-> "return", value |-> Ref(this),
                            error |-> "", message |-> ""]
              /\ call' = [op |-> "constructor", this |-> this,
                          args |-> <<field, ival>>]
    /\ before' = aggsDef
    /\ calls' = calls + 1
    /\ UNCHANGED <<pc, exports>>

CallInterval ==
    /\ CanCall
    /\ \E this \in DOMAIN aggsDef, v \in IntervalArgs :
          Invoke("interval", this, <<v>>, interval(aggsDef[this], this, v))

CallFormat ==
    /\ CanCall
    /\ \E this \in DOMAIN aggsDef, v \in FormatArgs :
          Invoke("format", this, <<v>>, format(aggsDef[this], this, v))

CallOffset ==
    /\ CanCall
    /\ \E this \in DOMAIN aggsDef, v \in OffsetArgs :
          Invoke("offset", this, <<v>>, offset(aggsDef[this], this, v))

CallOrder ==
    /\ CanCall
    /\ \E this \in DOMAIN aggsDef, key \in OrderKeys, direction \in DirectionArgs :
          Invoke("order", this, <<key, direction>>,
                 order(aggsDef[this], this, key, direction))

CallMinDocCount ==
    /\ CanCall
    /\ \E this \in DOMAIN aggsDef, v \in MinDocCountArgs :
          Invoke("minDocCount", this, <<v>>, minDocCount(aggsDef[this], this, v))

CallExtendedBounds ==
    /\ CanCall
    /\ \E this \in DOMAIN aggsDef, min \in BoundArgs, max \in BoundArgs :
          Invoke("extendedBounds", this, <<min, max>>,
                 extendedBounds(aggsDef[this], this, min, max))

CallMissing ==
    /\ CanCall
    /\ \E this \in DOMAIN aggsDef, v \in MissingArgs :
          Invoke("missing", this, <<v>>, missing(aggsDef[this], this, v))

CallKeyed ==
    /\ CanCall
    /\ \E this \in DOMAIN aggsDef, v \in KeyedArgs :
          Invoke("keyed", this, <<v>>, keyed(aggsDef[this], this, v))

\* serialization does not count as a call: it can be repeated at will
CallToJSON ==
    /\ Loaded
    /\ \E this \in DOMAIN aggsDef :
          LET eff == toJSON(aggsDef[this], this)
          IN  /\ aggsDef' = [aggsDef EXCEPT ![this] = eff.def]
              /\ result' = [kind |-> eff.kind, value |-> eff.value,
                            error |-> eff.error, message |-> eff.message]
              /\ call' = [op |-> "toJSON", this |-> this, args |-> <<>>]
    /\ before' = aggsDef
    /\ UNCHANGED <<pc, exports, calls>>

Next ==
    \/ ExportClass
    \/ ExportFactory
    \/ ExportPrettyPrint
    \/ Construct
    \/ CallInterval
    \/ CallFormat
    \/ CallOffset
    \/ CallOrder
    \/ CallMinDocCount
    \/ CallExtendedBounds
    \/ CallMissing
    \/ CallKeyed
    \/ CallToJSON

Spec == Init /\ [][Next]_vars

-----------------------------------------------------------------------------
(* Vocabulary of the properties *)

Setters ==
    { "interval", "format", "offset", "order", "minDocCount",
      "extendedBounds", "missing", "keyed" }

\* s is the word w up to the case of its letters
IsAnyCaseOf(s, w) ==
    /\ Len(s) = Len(w)
    /\ \A i \in 1..Len(w) :
          \/ s[i] = w[i]
          \/ \E j \in 1..Len(LowerCaseLetters) :
                LowerCaseLetters[j] = w[i] /\ UpperCaseLetters[j] = s[i]

\* a direction string that is 'asc' or 'desc' ignoring case
ValidDirection(d) ==
    d.t = "string" /\ (IsAnyCaseOf(d.s, ASC) \/ IsAnyCaseOf(d.s, DESC))

\* the lowercase form of a valid direction
LowerCased(d) == IF IsAnyCaseOf(d.s, ASC) THEN Str(ASC) ELSE Str(DESC)

\* the one-entry mapping {key: value}
Single(key, value) == Obj(Put(NoProps, key, value))

\* the entry of `key` in the bag of instance i of a heap; undefined if absent
Entry(heap, i, key) ==
    IF i \in DOMAIN heap /\ key \in DOMAIN heap[i] THEN heap[i][key] ELSE Undefined

Has(heap, i, key) == i \in DOMAIN heap /\ key \in DOMAIN heap[i]

\* the name of the factory of class X: X with its first letter lowercased
lowerFirst(X) == Name(toLowerCaseChar(X.first), X.rest)

-----------------------------------------------------------------------------
(* C1: whenever order(key, direction) was called with a direction equal to  *)
(* 'asc' or 'desc' ignoring case, the call returned and the bag's `order`   *)
(* entry is exactly {key: lowercase(direction)}.                            *)
C1_OrderStoresLowercase ==
    (call.op = "order" /\ ValidDirection(call.args[2])) =>
        /\ result.kind = "return"
        /\ Has(aggsDef, call.this, "order")
        /\ aggsDef[call.this].order = Single(call.args[1], LowerCased(call.args[2]))

C1_Witness ==
    /\ call.op = "order"
    /\ call.args = << "_key", Str(<<"D", "e", "s", "c">>) >>
    /\ result.kind = "return"
    /\ aggsDef[call.this].order = Single("_key", Str(DESC))

(* C2: whenever order was called with a direction string that is neither    *)
(* 'asc' nor 'desc' ignoring case, the call threw the direction Error and   *)
(* every bag, the previous `order` entry included, is as it was before.     *)
C2_InvalidDirectionRejected ==
    (call.op = "order" /\ call.args[2].t = "string" /\ ~ValidDirection(call.args[2])) =>
        /\ result.kind = "throw"
        /\ result.error = "Error"
        /\ result.message = DirectionMessage
        /\ aggsDef = before

C2_Witness ==
    /\ call.op = "order"
    /\ call.args[2] = Str(<<"A", "S", "C", "E", "N", "D", "I", "N", "G">>)
    /\ result.kind = "throw"
    /\ Has(before, call.this, "order")
    /\ Entry(aggsDef, call.this, "order") = Single("_count", Str(ASC))

(* C3: the `order` entry of every instance is the one-entry mapping of the  *)
(* last successful order call on it: a successful call leaves exactly       *)
(* {key: lowercase(direction)} ('desc' when the direction is omitted), with *)
(* no key of an earlier call, and any other call leaves the entry as it was.*)
C3_OrderOverwrites ==
    \A i \in DOMAIN before :
        IF call.op = "order" /\ call.this = i /\ result.kind = "return"
        THEN /\ Has(aggsDef, i, "order")
             /\ DOMAIN aggsDef[i].order.o = { call.args[1] }
             /\ aggsDef[i].order.o[call.args[1]] =
                    IF call.args[2].t = "undefined"
                    THEN Str(DESC)
                    ELSE LowerCased(call.args[2])
        ELSE /\ Has(aggsDef, i, "order") = Has(before, i, "order")
             /\ Entry(aggsDef, i, "order") = Entry(before, i, "order")

C3_Witness ==
    /\ call.op = "order"
    /\ call.args = << "_count", Str(DESC) >>
    /\ result.kind = "return"
    /\ Entry(before, call.this, "order") = Single("_key", Str(ASC))
    /\ Entry(aggsDef, call.this, "order") = Single("_count", Str(DESC))

(* C4: every setter call that returns, returns the instance it was called   *)
(* on, and the set of instances is the same after the call as before it.    *)
C4_SettersReturnThis ==
    (call.op \in Setters /\ result.kind = "return") =>
        /\ result.value = Ref(call.this)
        /\ DOMAIN aggsDef = DOMAIN before

C4_Witness ==
    /\ call.op = "keyed"
    /\ call.this = 1
    /\ Cardinality(DOMAIN aggsDef) = 2
    /\ result.value = Ref(1)

(* C5: the only way a call ends in an error is order throwing the direction *)
(* Error for a direction that is neither 'asc' nor 'desc' ignoring case.    *)
C5_OnlyDirectionError ==
    (result.kind = "throw") =>
        /\ call.op = "order"
        /\ result.error = "Error"
        /\ result.message = DirectionMessage
        /\ ~ValidDirection(call.args[2])

(* C6: whenever extendedBounds(min, max) was called, it returned and the    *)
(* `extended_bounds` entry is exactly {min, max} of that call, whatever was *)
(* stored before and whether or not min <= max.                             *)
C6_ExtendedBoundsReplaces ==
    (call.op = "extendedBounds") =>
        /\ result.kind = "return"
        /\ Has(aggsDef, call.this, "extended_bounds")
        /\ aggsDef[call.this].extended_bounds =
               Obj([min |-> call.args[1], max |-> call.args[2]])

C6_Witness ==
    /\ call.op = "extendedBounds"
    /\ call.args = << Num(100), Num(0) >>
    /\ Entry(before, call.this, "extended_bounds") =
           Obj([min |-> Num(0), max |-> Num(100)])
    /\ Entry(aggsDef, call.this, "extended_bounds") =
           Obj([min |-> Num(100), max |-> Num(0)])

(* C7 as stated: `extended_bounds` is absent or a mapping whose min and max *)
(* both hold a defined value.                                               *)
C7_BoundsBothDefined ==
    \A i \in DOMAIN aggsDef :
        Has(aggsDef, i, "extended_bounds") =>
            LET b == aggsDef[i].extended_bounds.o
            IN  /\ DOMAIN b = { "min", "max" }
                /\ ~isNil(b.min)
                /\ ~isNil(b.max)

(* C7 as amended: `extended_bounds` is absent or a mapping with both the    *)
(* min and the max key, written together by one extendedBounds call; a      *)
(* bound is null or undefined exactly when that call's argument was, and    *)
(* no other call changes the pair.                                          *)
C7_BoundsWrittenTogether ==
    \A i \in DOMAIN aggsDef :
        Has(aggsDef, i, "extended_bounds") =>
            LET b == aggsDef[i].extended_bounds.o
            IN  /\ DOMAIN b = { "min", "max" }
                /\ IF call.op = "extendedBounds" /\ call.this = i
                   THEN /\ isNil(b.min) = isNil(call.args[1])
                        /\ isNil(b.max) = isNil(call.args[2])
                   ELSE /\ Has(before, i, "extended_bounds")
                        /\ before[i].extended_bounds.o = b

C7_Witness ==
    /\ call.op = "extendedBounds"
    /\ call.args = << Num(0), Undefined >>
    /\ DOMAIN aggsDef[call.this].extended_bounds.o = { "min", "max" }
    /\ aggsDef[call.this].extended_bounds.o.max = Undefined

(* C8: in every reachable state the `order` entry of every instance is      *)
(* absent or a mapping with exactly one key whose value is the lowercase    *)
(* string 'asc' or 'desc'.                                                  *)
C8_OrderEntryWellFormed ==
    \A i \in DOMAIN aggsDef :
        Has(aggsDef, i, "order") =>
            /\ aggsDef[i].order.t = "object"
            /\ Cardinality(DOMAIN aggsDef[i].order.o) = 1
            /\ \A k \in DOMAIN aggsDef[i].order.o :
                  aggsDef[i].order.o[k] \in { Str(ASC), Str(DESC) }

C8_Witness ==
    /\ call.op = "order"
    /\ result.kind = "throw"
    /\ Entry(aggsDef, call.this, "order") = Single("_key", Str(ASC))
    /\ Entry(before, call.this, "order") = Single("_key", Str(ASC))

(* C9: once the index module is loaded, for every class X it imports the    *)
(* export named X is the class itself and the export named X with its first *)
(* letter lowercased is constructorWrapper(X).                              *)
C9_ClassesPairedWithFactories ==
    Loaded =>
        \A X \in Classes :
            /\ X \in DOMAIN exports
            /\ exports[X] = Class(X)
            /\ lowerFirst(X) \in DOMAIN exports
            /\ exports[lowerFirst(X)] = constructorWrapper(X)

(* C10: a toJSON call leaves every bag unchanged, and a toJSON call that    *)
(* directly follows a toJSON call on the same instance returns the same     *)
(* structure.                                                               *)
C10_SerializeIsRead ==
    [][ (call'.op = "toJSON") =>
            /\ aggsDef' = aggsDef
            /\ (call.op = "toJSON" /\ call.this = call'.this) =>
                   result'.value = result.value ]_vars

C10_Witness ==
    /\ call.op = "toJSON"
    /\ calls = MaxCalls
    /\ Has(aggsDef, call.this, "order")
    /\ Has(aggsDef, call.this, "extended_bounds")
    /\ result.value = Obj(aggsDef[call.this])

-----------------------------------------------------------------------------
(* The example builder: field 'age', interval 10 *)

Age == Str(<<"a", "g", "e">>)

AgeBag == [field |-> Age, interval |-> Num(10)]

AgeBagWithMinDocCount ==
    [field |-> Age, interval |-> Num(10), min_doc_count |-> Num(5)]

(* C11: a builder constructed with field 'age' and interval 10 has exactly  *)
(* the keys field and interval; minDocCount(5) on it adds exactly           *)
(* min_doc_count = 5, and keyed(true) after that adds exactly keyed = true, *)
(* so the bag then has the four keys field, interval, min_doc_count, keyed  *)
(* and no other.                                                            *)
C11_AgeExampleBag ==
    /\ (call.op = "constructor" /\ call.args = << Age, Num(10) >>) =>
           aggsDef[call.this] = AgeBag
    /\ (call.op = "minDocCount" /\ call.args = << Num(5) >>
            /\ before[call.this] = AgeBag) =>
           aggsDef[call.this] = AgeBagWithMinDocCount
    /\ (call.op = "keyed" /\ call.args = << Bool(TRUE) >>
            /\ before[call.this] = AgeBagWithMinDocCount) =>
           /\ DOMAIN aggsDef[call.this] =
                  { "field", "interval", "min_doc_count", "keyed" }
           /\ aggsDef[call.this] =
                  [field |-> Age, interval |-> Num(10),
                   min_doc_count |-> Num(5), keyed |-> Bool(TRUE)]

C11_Witness ==
    /\ call.op = "keyed"
    /\ call.args = << Bool(TRUE) >>
    /\ before[call.this] = AgeBagWithMinDocCount
    /\ DOMAIN aggsDef[call.this] = { "field", "interval", "min_doc_count", "keyed" }

(* C12: whenever order(key) was called with the direction omitted           *)
(* (undefined), the call returned and the `order` entry is exactly          *)
(* {key: 'desc'}, whatever ordering was stored before.                      *)
C12_OrderDefaultsToDesc ==
    (call.op = "order" /\ call.args[2].t = "undefined") =>
        /\ result.kind = "return"
        /\ Has(aggsDef, call.this, "order")
        /\ aggsDef[call.this].order = Single(call.args[1], Str(DESC))

C12_Witness ==
    /\ call.op = "order"
    /\ call.args = << "_count", Undefined >>
    /\ result.kind = "return"
    /\ Entry(before, call.this, "order") = Single("_key", Str(ASC))
    /\ Entry(aggsDef, call.this, "order") = Single("_count", Str(DESC))

\* the key of the option bag each setter writes
WireKey(op) ==
    CASE op = "interval" -> "interval"
      [] op = "format" -> "format"
      [] op = "offset" -> "offset"
      [] op = "order" -> "order"
      [] op = "minDocCount" -> "min_doc_count"
      [] op = "extendedBounds" -> "extended_bounds"
      [] op = "missing" -> "missing"
      [] op = "keyed" -> "keyed"

\* the setters that take one value and store it
VerbatimSetters ==
    { "interval", "format", "offset", "minDocCount", "missing", "keyed" }

(* C13: a setter call changes at most the entry of its own wire key in the  *)
(* bag of the instance it was called on: every other key of that bag, the   *)
(* bag of every other instance and the set of instances are as before; a    *)
(* call that threw changed nothing; a call that returned left its key       *)
(* present, and interval, format, offset, minDocCount, missing and keyed    *)
(* left under it the argument exactly as given.                             *)
C13_SettersWriteOwnKeyOnly ==
    (call.op \in Setters) =>
        /\ DOMAIN aggsDef = DOMAIN before
        /\ \A i \in DOMAIN before \ { call.this } : aggsDef[i] = before[i]
        /\ \A k \in (DOMAIN aggsDef[call.this] \cup DOMAIN before[call.this])
                        \ { WireKey(call.op) } :
              /\ Has(aggsDef, call.this, k) = Has(before, call.this, k)
              /\ Entry(aggsDef, call.this, k) = Entry(before, call.this, k)
        /\ (result.kind = "throw") => (aggsDef = before)
        /\ (result.kind = "return") => Has(aggsDef, call.this, WireKey(call.op))
        /\ (result.kind = "return" /\ call.op \in VerbatimSetters) =>
               aggsDef[call.this][WireKey(call.op)] = call.args[1]

C13_Witness ==
    /\ call.op = "offset"
    /\ call.args = << Num(-5) >>
    /\ Cardinality(DOMAIN aggsDef) = 2
    /\ aggsDef[call.this].offset = Num(-5)
    /\ \E i \in DOMAIN aggsDef \ { call.this } :
          aggsDef[i] = before[i] /\ ~Has(aggsDef, i, "offset")

(* C14: a freshly constructed bag has no `interval` key when the interval   *)
(* argument is null or undefined, and otherwise holds that argument under   *)
(* `interval`, the falsy 0 and '' included; the constructor writes no key   *)
(* but `field` and `interval`; a later interval(v) call leaves v there.     *)
C14_ConstructorSeedsInterval ==
    /\ (call.op = "constructor") =>
          /\ DOMAIN aggsDef[call.this] \subseteq { "field", "interval" }
          /\ IF call.args[2].t \in { "undefined", "null" }
             THEN ~Has(aggsDef, call.this, "interval")
             ELSE /\ Has(aggsDef, call.this, "interval")
                  /\ aggsDef[call.this].interval = call.args[2]
    /\ (call.op = "interval") =>
          /\ Has(aggsDef, call.this, "interval")
          /\ aggsDef[call.this].interval = call.args[1]

C14_Witness ==
    /\ call.op = "interval"
    /\ call.args = << Num(5) >>
    /\ before[call.this] = [field |-> Age, interval |-> Str(<<>>)]
    /\ aggsDef[call.this] = [field |-> Age, interval |-> Num(5)]

====
